---- MODULE Spec2Model ----
(***************************************************************************)
(* Glimpse (src/main.rs): a terminal browser of /sys/class/leds.           *)
(*                                                                         *)
(* The model covers the device scan (get_all_leds, LED::new), the          *)
(* construction of the application (App::new), the render / input loop     *)
(* (App::run, App::render, App::handle_crossterm_events,                   *)
(* App::on_key_event, App::quit) and the printing of the log by main.      *)
(*                                                                         *)
(* Strings that the program inspects character by character (device names  *)
(* and the contents of brightness files) are sequences of one-character    *)
(* strings.  Option<T> is a sequence of length at most one.  Indices into  *)
(* the device list are 0-based, as in the source.                          *)
(***************************************************************************)
EXTENDS Integers, Sequences, FiniteSets, TLC

VARIABLES
    fs,             \* the filesystem under SYS_CLASS_LEDS, as the scan finds it
    reads,          \* the paths the program has read so far, in order
    pc,             \* position of the main thread
    scan,           \* the value returned by get_all_leds() (App::new, line 121)
    event,          \* the event event::read() returned, while it is dispatched
    running,        \* App.running
    leds,           \* App.leds
    log,            \* App.log
    focused_pane,   \* App.focused_pane
    led_list_state, \* App.led_list_state (ratatui ListState: offset, selected)
    result,         \* the value App::run returned to main
    stdout          \* the lines main has printed

vars == <<fs, reads, pc, scan, event, running, leds, log, focused_pane,
          led_list_state, result, stdout>>

app == <<running, leds, log, focused_pane, led_list_state>>

(***************************************************************************)
(* Bounds of the model.                                                    *)
(***************************************************************************)
\* longest device name in the single-device filesystems
MaxNameLen == 4
\* longest brightness text in the single-device filesystems
MaxTextLen == 3
\* most directory entries in the filesystems of SpecScan
MaxEntries == 2
\* most directory entries in the filesystems of Spec
MaxLeds == 3
\* most rows of the list area a render is given
MaxHeight == 2
\* usize::MAX of the modelled build (a 3-bit usize; wider than any list index)
UsizeMax == 7

\* u8::MAX, the range of parse::<u8>() on line 73
U8Max == 255

(***************************************************************************)
(* Small helpers.                                                          *)
(***************************************************************************)
None == <<>>
Some(x) == <<x>>
Min(a, b) == IF a < b THEN a ELSE b

\* usize::saturating_add(1) and usize::saturating_sub(1)
SaturatingAdd1(i) == IF i >= UsizeMax THEN UsizeMax ELSE i + 1
SaturatingSub1(i) == IF i = 0 THEN 0 ELSE i - 1

SeqsUpTo(S, n) == UNION {[1..k -> S] : k \in 0..n}

(***************************************************************************)
(* The filesystem.  A directory entry of SYS_CLASS_LEDS carries what each  *)
(* access of the scan can find there:                                      *)
(*   iter       outcome of yielding the entry from the read_dir iterator   *)
(*   utf8       whether the OsString file name converts with into_string   *)
(*   name       the file name                                              *)
(*   dir        outcome of fs::read_dir on the device directory            *)
(*   file       outcome of opening <device>/brightness                     *)
(*   brightness the contents of <device>/brightness                        *)
(* An outcome is "Ok" or the std::io::ErrorKind of the failure.  A device  *)
(* removed between enumeration and read is an entry whose dir is           *)
(* "NotFound".                                                             *)
(***************************************************************************)
IoErrorKinds == {"NotFound", "PermissionDenied"}
Outcomes == {"Ok"} \cup IoErrorKinds

Whitespace == {" ", "\n"}
DigitChars == {"0", "1", "2", "3", "4", "5", "6", "7", "8", "9"}

Entry(name, text) ==
    [iter |-> "Ok", utf8 |-> TRUE, name |-> name, dir |-> "Ok",
     file |-> "Ok", brightness |-> text]

\* Names and brightness texts of the single-device filesystems.
NameChars == {"a", ":"}
TextChars == {"0", "2", "5", "6", "\n", "x", "-"}
Names == SeqsUpTo(NameChars, MaxNameLen) \ {<<>>}
Texts == SeqsUpTo(TextChars, MaxTextLen)

\* The i-th name of the multi-device filesystems: file names in one
\* directory are pairwise distinct.
NameAt(i) ==
    [j \in 1..i |-> "a"] \o (IF i % 2 = 1 THEN <<":", ":", "b">> ELSE <<>>)

\* What a device directory can hold, apart from its name.
GoodKinds == {Entry(<<>>, <<"5", "\n">>), Entry(<<>>, <<"0", "\n">>)}
BadBrightnessKind == Entry(<<>>, <<"x", "\n">>)
FaultKinds ==
    { BadBrightnessKind,
      [Entry(<<>>, <<>>) EXCEPT !.dir = "NotFound"],
      [Entry(<<>>, <<>>) EXCEPT !.dir = "PermissionDenied"],
      [Entry(<<>>, <<>>) EXCEPT !.file = "NotFound"],
      [Entry(<<>>, <<>>) EXCEPT !.utf8 = FALSE],
      [Entry(<<>>, <<>>) EXCEPT !.iter = "PermissionDenied"] }

Named(kinds) == [i \in 1..Len(kinds) |-> [kinds[i] EXCEPT !.name = NameAt(i)]]

Root(outcome, entries) == [root |-> outcome, entries |-> entries]

\* Filesystems of Spec: up to MaxLeds devices, readable or with a bad
\* brightness, or no readable root at all.
AppFileSystems ==
    {Root("Ok", Named(k)) : k \in SeqsUpTo(GoodKinds \cup {BadBrightnessKind}, MaxLeds)}
    \cup {Root(e, <<>>) : e \in IoErrorKinds}

\* Filesystems of SpecScan: one device with any name and any brightness
\* text, or up to MaxEntries devices of any kind, or no readable root.
ScanFileSystems ==
    {Root("Ok", <<Entry(n, t)>>) : n \in Names, t \in Texts}
    \cup {Root("Ok", Named(k)) : k \in SeqsUpTo(GoodKinds \cup FaultKinds, MaxEntries)}
    \cup {Root(e, <<>>) : e \in IoErrorKinds}

(***************************************************************************)
(* NewLEDError (lines 44-61) and its Display text (the #[error] strings).  *)
(***************************************************************************)
NotFound == [tag |-> "NotFound", io |-> "None"]
InvalidBrightness == [tag |-> "InvalidBrightness", io |-> "None"]
InvalidFileName == [tag |-> "InvalidFileName", io |-> "None"]
IOError(kind) == [tag |-> "IOError", io |-> kind]

\* Display of std::io::Error for an OS error of the given kind
IoErrorText(kind) ==
    IF kind = "NotFound" THEN "No such file or directory (os error 2)"
    ELSE "Permission denied (os error 13)"

ErrorText(e) ==
    CASE e.tag = "NotFound" -> "LED does not exist"
      [] e.tag = "InvalidBrightness" -> "Invalid brightness value"
      [] e.tag = "InvalidFileName" -> "Invalid encoding in file name"
      [] e.tag = "IOError" -> "I/O error: " \o IoErrorText(e.io)

\* Result<T, E>
Ok(v) == [ok |-> TRUE, val |-> Some(v), err |-> None]
Err(e) == [ok |-> FALSE, val |-> None, err |-> Some(e)]

(***************************************************************************)
(* str::trim, str::parse::<u8> and str::replace, as LED::new uses them.    *)
(***************************************************************************)
RECURSIVE TrimStart(_)
TrimStart(s) ==
    IF s # <<>> /\ Head(s) \in Whitespace THEN TrimStart(Tail(s)) ELSE s

RECURSIVE TrimEnd(_)
TrimEnd(s) ==
    IF s # <<>> /\ s[Len(s)] \in Whitespace
    THEN TrimEnd(SubSeq(s, 1, Len(s) - 1))
    ELSE s

Trim(s) == TrimEnd(TrimStart(s))

DigitValue(c) ==
    CASE c = "0" -> 0 [] c = "1" -> 1 [] c = "2" -> 2 [] c = "3" -> 3
      [] c = "4" -> 4 [] c = "5" -> 5 [] c = "6" -> 6 [] c = "7" -> 7
      [] c = "8" -> 8 [] c = "9" -> 9

\* The digit loop of u8::from_str: checked_mul(10) then checked_add(digit);
\* a character that is no digit, or an overflow, is an error.
RECURSIVE ParseDigits(_, _)
ParseDigits(digits, acc) ==
    IF digits = <<>> THEN Some(acc)
    ELSE IF Head(digits) \notin DigitChars THEN None
    ELSE IF acc * 10 > U8Max THEN None
    ELSE IF acc * 10 + DigitValue(Head(digits)) > U8Max THEN None
    ELSE ParseDigits(Tail(digits), acc * 10 + DigitValue(Head(digits)))

\* str::parse::<u8>: empty input and a lone sign are errors, one leading
\* "+" is accepted, "-" is no digit of an unsigned type.
ParseU8(s) ==
    IF s = <<>> THEN None
    ELSE IF s = <<"+">> \/ s = <<"-">> THEN None
    ELSE IF Head(s) = "+" THEN ParseDigits(Tail(s), 0)
    ELSE ParseDigits(s, 0)

IsPrefix(p, s) == Len(p) <= Len(s) /\ SubSeq(s, 1, Len(p)) = p

ReplaceFirstOnly(s, from, to) ==
    LET hits == {i \in 1..Len(s) : IsPrefix(from, SubSeq(s, i, Len(s)))}
    IN  IF hits = {} THEN s
        ELSE LET i == CHOOSE h \in hits : \A g \in hits : h <= g
             IN  SubSeq(s, 1, i - 1) \o to \o SubSeq(s, i + Len(from), Len(s))

\* str::replace: every non-overlapping match, found left to right
RECURSIVE Replace(_, _, _)
Replace(s, from, to) ==
    IF s = <<>> THEN <<>>
    ELSE IF IsPrefix(from, s)
    THEN to \o Replace(SubSeq(s, Len(from) + 1, Len(s)), from, to)
    ELSE <<Head(s)>> \o Replace(Tail(s), from, to)

(***************************************************************************)
(* LED::new (lines 64-80).  The value is the Result and the paths read.    *)
(***************************************************************************)
DirEntry(file_name) ==
    CHOOSE d \in {fs.entries[i] : i \in 1..Len(fs.entries)} : d.name = file_name

Led(file_name, is_on) ==
    [file_name |-> file_name,
     name |-> Replace(file_name, <<":", ":">>, <<" ">>),
     is_on |-> is_on]

DirPath(file_name) == <<file_name>>
BrightnessPath(file_name) == <<file_name, "brightness">>

LedNewUnclassified(file_name) ==
    LET d == DirEntry(file_name)
        brightness == ParseU8(Trim(d.brightness))
    IN  IF d.dir # "Ok"
        THEN [result |-> Err(IOError(d.dir)), reads |-> <<DirPath(file_name)>>]
        ELSE IF d.file # "Ok"
        THEN [result |-> Err(IOError(d.file)),
              reads |-> <<DirPath(file_name), BrightnessPath(file_name)>>]
        ELSE IF brightness = None
        THEN [result |-> Err(InvalidBrightness),
              reads |-> <<DirPath(file_name), BrightnessPath(file_name)>>]
        ELSE [result |-> Ok(Led(file_name, brightness[1] > 0)),
              reads |-> <<DirPath(file_name), BrightnessPath(file_name)>>]

LED_new(file_name) ==
    LET d == DirEntry(file_name)
        brightness == ParseU8(Trim(d.brightness))
    IN  IF d.dir # "Ok"
        THEN [result |-> Err(IF d.dir = "NotFound" THEN NotFound ELSE IOError(d.dir)),
              reads |-> <<DirPath(file_name)>>]
        ELSE IF d.file # "Ok"
        THEN [result |-> Err(IOError(d.file)),
              reads |-> <<DirPath(file_name), BrightnessPath(file_name)>>]
        ELSE IF brightness = None
        THEN [result |-> Err(InvalidBrightness),
              reads |-> <<DirPath(file_name), BrightnessPath(file_name)>>]
        ELSE [result |-> Ok(Led(file_name, brightness[1] > 0)),
              reads |-> <<DirPath(file_name), BrightnessPath(file_name)>>]

(***************************************************************************)
(* get_all_leds (lines 83-96).  The read_dir iterator is lazy: an entry is *)
(* produced when the loop reaches it.                                      *)
(***************************************************************************)
RootPath == <<>>

RECURSIVE ForDirectoriesSkipping(_, _, _)
ForDirectoriesSkipping(i, acc, rd) ==
    IF i > Len(fs.entries) THEN [result |-> Ok(acc), reads |-> rd]
    ELSE LET directory == fs.entries[i] IN
         IF directory.iter # "Ok" \/ ~directory.utf8
         THEN ForDirectoriesSkipping(i + 1, acc, rd)
         ELSE LET led == LED_new(directory.name) IN
              IF ~led.result.ok
              THEN ForDirectoriesSkipping(i + 1, acc, rd \o led.reads)
              ELSE ForDirectoriesSkipping(i + 1, Append(acc, led.result.val[1]),
                                          rd \o led.reads)

RECURSIVE ForDirectories(_, _, _)
ForDirectories(i, acc, rd) ==
    IF i > Len(fs.entries) THEN [result |-> Ok(acc), reads |-> rd]
    ELSE LET directory == fs.entries[i] IN
         IF directory.iter # "Ok"
         THEN [result |-> Err(IOError(directory.iter)), reads |-> rd]
         ELSE IF ~directory.utf8
         THEN [result |-> Err(InvalidFileName), reads |-> rd]
         ELSE LET led == LED_new(directory.name) IN
              IF ~led.result.ok
              THEN [result |-> led.result, reads |-> rd \o led.reads]
              ELSE ForDirectories(i + 1, Append(acc, led.result.val[1]), rd \o led.reads)

get_all_leds ==
    IF fs.root # "Ok"
    THEN [result |-> Err(IOError(fs.root)), reads |-> <<RootPath>>]
    ELSE ForDirectories(1, <<>>, <<RootPath>>)

(***************************************************************************)
(* ratatui's ListState and the stateful render of List, as lines 136, 168, *)
(* 201 and 204 use them.  Every list item is one row high (a device name   *)
(* holds no line break).                                                   *)
(***************************************************************************)
ListStateFirstSelected == [offset |-> 0, selected |-> Some(0)]

\* ListState::default(), line 136
ListStateDefault == [offset |-> 0, selected |-> None]

\* ListState::select: clearing the selection also resets the offset
Select(state, index) ==
    [offset |-> IF index = None THEN 0 ELSE state.offset, selected |-> index]

\* ListState::select_next
select_next(state) ==
    Select(state, Some(IF state.selected = None THEN 0
                       ELSE SaturatingAdd1(state.selected[1])))

SelectPreviousWrapping(state) ==
    Select(state, Some(IF state.selected = None \/ state.selected[1] = 0
                       THEN UsizeMax
                       ELSE state.selected[1] - 1))

\* ListState::select_previous
select_previous(state) ==
    Select(state, Some(IF state.selected = None THEN UsizeMax
                       ELSE SaturatingSub1(state.selected[1])))

\* List::get_items_bounds, the scroll-down loop: extend the window to the
\* item to display, dropping rows from its top when it exceeds the height.
RECURSIVE ScrollDown(_, _, _, _, _)
ScrollDown(index, first, last, height, max_height) ==
    IF index >= last
    THEN IF height + 1 > max_height
         THEN ScrollDown(index, first + 1, last + 1, height, max_height)
         ELSE ScrollDown(index, first, last + 1, height + 1, max_height)
    ELSE first

\* List::get_items_bounds: the first visible index for n one-row items
GetItemsBounds(n, selected, offset, max_height) ==
    LET off == Min(offset, SaturatingSub1(n))
        fit == Min(max_height, n - off)
        index == IF selected = None THEN off ELSE selected[1]
        first == ScrollDown(index, off, off + fit, fit, max_height)
    IN  IF index < first THEN index ELSE first

\* A list area: the inside of the bordered left panel
ListAreas == [width : 0..1, height : 0..MaxHeight]
IsEmptyArea(area) == area.width = 0 \/ area.height = 0

RenderListSelectingFirst(n, state, area) ==
    IF IsEmptyArea(area) THEN state
    ELSE IF n = 0 THEN Select(state, None)
    ELSE LET chosen == IF state.selected = None THEN Select(state, Some(0))
                       ELSE IF state.selected[1] >= n
                       THEN Select(state, Some(SaturatingSub1(n)))
                       ELSE state
         IN  [chosen EXCEPT !.offset =
                  GetItemsBounds(n, chosen.selected, chosen.offset, area.height)]

\* <List as StatefulWidget>::render on n items
RenderList(n, state, area) ==
    IF IsEmptyArea(area) THEN state
    ELSE IF n = 0 THEN Select(state, None)
    ELSE LET clamped == IF state.selected # None /\ state.selected[1] >= n
                        THEN Select(state, Some(SaturatingSub1(n)))
                        ELSE state
         IN  [clamped EXCEPT !.offset =
                  GetItemsBounds(n, clamped.selected, clamped.offset, area.height)]

(***************************************************************************)
(* Input events (crossterm::event::Event).                                 *)
(***************************************************************************)
KeyCodes == {<<"Esc">>, <<"Up">>, <<"Down">>, <<"Enter">>,
             <<"Char", "q">>, <<"Char", "Q">>, <<"Char", "c">>, <<"Char", "C">>}
Modifiers == SUBSET {"CONTROL", "SHIFT"}
KeyEventKinds == {"Press", "Repeat", "Release"}

KeyEvents ==
    [type : {"Key"}, code : KeyCodes, modifiers : Modifiers, kind : KeyEventKinds]
OtherEvents ==
    [type : {"Mouse", "Resize", "FocusGained"}, code : {<<>>}, modifiers : {{}},
     kind : {"None"}]
Events == KeyEvents \cup OtherEvents

(***************************************************************************)
(* App::on_key_event (lines 196-208) and App::quit (lines 211-213): the    *)
(* new values of running and led_list_state.                               *)
(***************************************************************************)
OnKeyEventQuitAnyC(key) ==
    IF key.code \in {<<"Esc">>, <<"Char", "q">>}
       \/ ("CONTROL" \in key.modifiers /\ key.code \in {<<"Char", "c">>, <<"Char", "C">>})
    THEN [running |-> FALSE, led_list_state |-> led_list_state]
    ELSE IF key.code = <<"Up">> /\ focused_pane = "Sidebar"
    THEN [running |-> running, led_list_state |-> select_previous(led_list_state)]
    ELSE IF key.code = <<"Down">> /\ focused_pane = "Sidebar"
    THEN [running |-> running, led_list_state |-> select_next(led_list_state)]
    ELSE [running |-> running, led_list_state |-> led_list_state]

on_key_event(key) ==
    IF key.code \in {<<"Esc">>, <<"Char", "q">>}
       \/ (key.modifiers = {"CONTROL"} /\ key.code \in {<<"Char", "c">>, <<"Char", "C">>})
    THEN [running |-> FALSE, led_list_state |-> led_list_state]
    ELSE IF key.code = <<"Up">> /\ focused_pane = "Sidebar"
    THEN [running |-> running, led_list_state |-> select_previous(led_list_state)]
    ELSE IF key.code = <<"Down">> /\ focused_pane = "Sidebar"
    THEN [running |-> running, led_list_state |-> select_next(led_list_state)]
    ELSE [running |-> running, led_list_state |-> led_list_state]

(***************************************************************************)
(* The program, step by step.                                              *)
(***************************************************************************)
SuccessLine(n) == "Successfully found " \o ToString(n) \o " LED(s)"
ErrorLine(e) == "Error getting LEDs: " \o ErrorText(e)
ExitLine == "Exiting Glimpse"

AppLogSuccessOnly(got) == <<SuccessLine(IF got.ok THEN Len(got.val[1]) ELSE 0)>>

\* App::new, lines 120-130: the log after the scan returned got
AppLog(got) ==
    IF got.ok THEN <<SuccessLine(Len(got.val[1]))>> ELSE <<ErrorLine(got.err[1])>>

\* App::new, lines 121-130: the devices after the scan returned got
AppLeds(got) == IF got.ok THEN got.val[1] ELSE <<>>

\* App::new (lines 119-138), called from main (line 21)
App_new ==
    LET got == get_all_leds IN
    /\ pc = "new"
    /\ scan' = Some(got.result)
    /\ reads' = reads \o got.reads
    /\ leds' = AppLeds(got.result)
    /\ log' = AppLog(got.result)
    /\ running' = FALSE
    /\ focused_pane' = "Sidebar"
    /\ led_list_state' = ListStateDefault
    /\ pc' = "run"
    /\ UNCHANGED <<fs, event, result, stdout>>

\* App::run, line 142: the loop is entered with running set
run_start ==
    /\ pc = "run"
    /\ running' = TRUE
    /\ pc' = "draw"
    /\ UNCHANGED <<fs, reads, scan, event, leds, log, focused_pane,
                   led_list_state, result, stdout>>

\* App::render (lines 157-178) under terminal.draw (line 144), the list
\* drawn into the given area
render(area) ==
    /\ pc = "draw"
    /\ led_list_state' = RenderList(Len(leds), led_list_state, area)
    /\ pc' = "events"
    /\ UNCHANGED <<fs, reads, scan, event, running, leds, log, focused_pane,
                   result, stdout>>

\* event::read() (line 185) returns the next input event
event_read(ev) ==
    /\ pc = "events"
    /\ event' = Some(ev)
    /\ pc' = "match"
    /\ UNCHANGED <<fs, reads, scan, running, leds, log, focused_pane,
                   led_list_state, result, stdout>>

HandleEventsOfAnyKind ==
    LET ev == event[1]
        next == IF ev.type = "Key"
                THEN on_key_event(ev)
                ELSE [running |-> running, led_list_state |-> led_list_state]
    IN  /\ pc = "match"
        /\ running' = next.running
        /\ led_list_state' = next.led_list_state
        /\ event' = None
        /\ pc' = IF next.running THEN "draw" ELSE "exit"
        /\ UNCHANGED <<fs, reads, scan, leds, log, focused_pane, result, stdout>>

\* App::handle_crossterm_events (lines 185-192) on the event read, then the
\* loop condition of line 143
handle_crossterm_events ==
    LET ev == event[1]
        next == IF ev.type = "Key" /\ ev.kind = "Press"
                THEN on_key_event(ev)
                ELSE [running |-> running, led_list_state |-> led_list_state]
    IN  /\ pc = "match"
        /\ running' = next.running
        /\ led_list_state' = next.led_list_state
        /\ event' = None
        /\ pc' = IF next.running THEN "draw" ELSE "exit"
        /\ UNCHANGED <<fs, reads, scan, leds, log, focused_pane, result, stdout>>

\* terminal.draw(..)? (line 144) or event::read()? (line 185) fails: run
\* returns the error
run_fails ==
    /\ pc \in {"draw", "events"}
    /\ result' = Some(Err(IOError("Other")))
    /\ pc' = "returned"
    /\ UNCHANGED <<fs, reads, scan, event, running, leds, log, focused_pane,
                   led_list_state, stdout>>

RunExitSilently ==
    /\ pc = "exit"
    /\ result' = Some(Ok(log))
    /\ pc' = "returned"
    /\ UNCHANGED <<fs, reads, scan, event, running, leds, log, focused_pane,
                   led_list_state, stdout>>

\* App::run, lines 147-148: the exit line, then the log is returned
run_exit ==
    /\ pc = "exit"
    /\ log' = Append(log, ExitLine)
    /\ result' = Some(Ok(log'))
    /\ pc' = "returned"
    /\ UNCHANGED <<fs, reads, scan, event, running, leds, focused_pane,
                   led_list_state, stdout>>

\* main, lines 23-33: the log is printed when run returned Ok
main_print ==
    /\ pc = "returned"
    /\ stdout' = IF result[1].ok
                 THEN <<"Printing Glimpse log output...">> \o result[1].val[1]
                 ELSE stdout
    /\ pc' = "done"
    /\ UNCHANGED <<fs, reads, scan, event, running, leds, log, focused_pane,
                   led_list_state, result>>

\* The program before App::new runs (main, line 21)
InitApp ==
    /\ reads = <<>>
    /\ pc = "new"
    /\ scan = None
    /\ event = None
    /\ running = FALSE
    /\ leds = <<>>
    /\ log = <<>>
    /\ focused_pane = "Sidebar"
    /\ led_list_state = ListStateDefault
    /\ result = None
    /\ stdout = <<>>

Init == fs \in AppFileSystems /\ InitApp

Next ==
    \/ App_new
    \/ run_start
    \/ \E area \in ListAreas : render(area)
    \/ \E ev \in Events : event_read(ev)
    \/ handle_crossterm_events
    \/ run_fails
    \/ run_exit
    \/ main_print

Spec == Init /\ [][Next]_vars

\* The scan alone, on the wider set of filesystems
InitScan == fs \in ScanFileSystems /\ InitApp

NextScan == App_new

SpecScan == InitScan /\ [][NextScan]_vars

(***************************************************************************)
(* Vocabulary of the properties.                                           *)
(***************************************************************************)
Selected == led_list_state.selected
InLoop == pc \in {"draw", "events", "match"}
Stopped == pc \in {"exit", "returned", "done"} /\ ~running
Dispatching == pc = "match"
IsKeyPress == Dispatching /\ event[1].type = "Key" /\ event[1].kind = "Press"
KeyPress(code) == IsKeyPress /\ event[1].code = code
Rendering == pc = "draw" /\ pc' = "events"

\* escape, lowercase q, or c / C with the control modifier and no other
IsQuitKey(key) ==
    \/ key.code = <<"Esc">>
    \/ key.code = <<"Char", "q">>
    \/ /\ key.code \in {<<"Char", "c">>, <<"Char", "C">>}
       /\ "CONTROL" \in key.modifiers
       /\ key.modifiers \ {"CONTROL"} = {}

ScanFailed == scan # None /\ ~scan[1].ok
Navigable == Len(leds) > 0 /\ focused_pane = "Sidebar"
LastIndex == Len(leds) - 1

\* C1: a key press stops the loop exactly when it is a quit key (escape,
\* lowercase q, control+c / control+C); every other key press leaves the
\* loop running; once stopped, the application stays stopped.
C1_QuitKeys ==
    [][ /\ IsKeyPress =>
             ((running' = FALSE /\ pc' = "exit") <=> IsQuitKey(event[1]))
        /\ (IsKeyPress /\ ~IsQuitKey(event[1])) => (running' = TRUE /\ pc' = "draw")
        /\ Stopped => Stopped' ]_vars

\* C1 witness: the loop was stopped by a quit key after the selection moved.
C1_Witness == pc = "exit" /\ ~running /\ Selected # None

\* C2 as stated (its last clause): with M > 0 devices and the sidebar
\* focused, the selection seen after each render is an index in [0, M-1].
C2_Original ==
    (pc = "events" /\ Navigable) =>
        (Selected # None /\ Selected[1] \in 0..LastIndex)

\* C2 amended: with M > 0 devices and the sidebar focused, Down moves a
\* selected index up by one (saturating only at usize::MAX) and Up moves
\* it down by one, saturating at 0; a render into a non-empty list area
\* clamps the index to M-1 and keeps an empty selection empty.  From the
\* empty selection the program starts with, Down selects index 0 and Up
\* selects an index at or beyond the last, which the render makes M-1.
C2_Amended ==
    [][ /\ (Navigable /\ KeyPress(<<"Down">>)) =>
             Selected' = IF Selected = None THEN Some(0)
                         ELSE IF Selected[1] = UsizeMax THEN Selected
                         ELSE Some(Selected[1] + 1)
        /\ (Navigable /\ KeyPress(<<"Up">>)) =>
             IF Selected = None
             THEN Selected' # None /\ Selected'[1] >= LastIndex
             ELSE Selected' = Some(IF Selected[1] = 0 THEN 0 ELSE Selected[1] - 1)
        /\ Navigable =>
             \A area \in ListAreas :
                 (render(area) /\ ~IsEmptyArea(area)) =>
                     Selected' = IF Selected = None THEN None
                                 ELSE Some(Min(Selected[1], LastIndex)) ]_vars

\* C2 witness: Down was pressed on the last entry; the index is one past it
\* until the next render.
C2_Witness == pc = "draw" /\ Len(leds) >= 2 /\ Selected = Some(Len(leds))

\* The decimal text of a device count
CountText(n) ==
    CASE n = 0 -> "0" [] n = 1 -> "1" [] n = 2 -> "2" [] n = 3 -> "3"
      [] n = 4 -> "4" [] n = 5 -> "5" [] n = 6 -> "6" [] n = 7 -> "7"
      [] n = 8 -> "8" [] n = 9 -> "9"

FoundLine == "Successfully found " \o CountText(Len(fs.entries)) \o " LED(s)"

\* C3 as stated: when the loop starts after a scan that found N > 0
\* devices, index 0 is selected and the log holds the success line.
C3_Original ==
    (pc = "run" /\ Len(leds) > 0) =>
        (Selected = Some(0) /\ \E i \in 1..Len(log) : log[i] = FoundLine)

\* C3 amended: when the loop starts after a scan that found N > 0 devices,
\* nothing is selected yet, and the log holds the success line.
C3_Amended ==
    (pc = "run" /\ Len(leds) > 0) =>
        /\ Selected = None
        /\ Len(leds) = Len(fs.entries)
        /\ \E i \in 1..Len(log) : log[i] = FoundLine

\* C3 witness: the application is constructed from two devices.
C3_Witness == pc = "run" /\ Len(leds) = 2 /\ scan[1].ok

\* The error line each failing filesystem of Spec leads to
ExpectedErrorLine ==
    IF fs.root = "NotFound"
    THEN "Error getting LEDs: I/O error: No such file or directory (os error 2)"
    ELSE IF fs.root = "PermissionDenied"
    THEN "Error getting LEDs: I/O error: Permission denied (os error 13)"
    ELSE "Error getting LEDs: Invalid brightness value"

\* After a failed scan: no devices, and the error line is the one log line
\* for as long as the loop runs.
C4_Degraded ==
    ScanFailed =>
        /\ pc # "new"
        /\ leds = <<>>
        /\ Len(log) >= 1 /\ log[1] = ExpectedErrorLine
        /\ (pc \in {"run"} \cup {"draw", "events", "match"}) => Len(log) = 1

\* After a failed scan the loop is entered, and a quit key stops it.
C4_EntersAndQuits ==
    /\ (pc = "new" /\ ScanFailed') => pc' = "run"
    /\ (pc = "run" /\ ScanFailed) => (pc' = "draw" /\ running')
    /\ (ScanFailed /\ IsKeyPress /\ IsQuitKey(event[1])) =>
           (running' = FALSE /\ pc' = "exit")

IsNavigationPress == KeyPress(<<"Up">>) \/ KeyPress(<<"Down">>)

\* C4 as stated: after a failed scan the application runs with zero
\* devices and the error line, a quit key stops it, and a navigation key
\* changes nothing of the application state.
C4_Original ==
    /\ []C4_Degraded
    /\ [][C4_EntersAndQuits]_vars
    /\ [][(ScanFailed /\ IsNavigationPress) => UNCHANGED app]_vars

\* C4 amended: after a failed scan the application runs with zero devices
\* and the error line, a quit key stops it, and a navigation key changes
\* nothing but the selected index of the list state, which the next render
\* into a non-empty list area clears again.
C4_Amended ==
    /\ []C4_Degraded
    /\ [][C4_EntersAndQuits]_vars
    /\ [][ /\ (ScanFailed /\ IsNavigationPress) =>
                (UNCHANGED <<running, leds, log, focused_pane>> /\ pc' = "draw")
           /\ ScanFailed =>
                \A area \in ListAreas :
                    (render(area) /\ ~IsEmptyArea(area)) =>
                        led_list_state' = ListStateDefault ]_vars

\* C4 witness: after a failed scan a navigation key was pressed and then a
\* quit key stopped the loop.
C4_Witness == ScanFailed /\ pc = "exit" /\ ~running /\ Selected # None

\* C8 as stated: a render step changes no component of the application.
C8_Original == [][Rendering => UNCHANGED app]_vars

\* C8 amended: a render step leaves running, the devices, the log and the
\* focused pane unchanged; of the list state it keeps an empty selection
\* over a non-empty list and any index within [0, M-1], and otherwise only
\* normalises the selection (an index beyond the last entry becomes M-1, a
\* selection over zero devices is cleared) and moves the scroll offset.
C8_Amended ==
    [][ Rendering =>
          /\ UNCHANGED <<running, leds, log, focused_pane>>
          /\ (Len(leds) > 0 /\ (Selected = None \/ Selected[1] <= LastIndex)) =>
                 Selected' = Selected
          /\ Selected' # Selected =>
                 \/ Len(leds) = 0 /\ led_list_state' = ListStateDefault
                 \/ Len(leds) > 0 /\ Selected[1] > LastIndex
                    /\ Selected' = Some(LastIndex) ]_vars

\* C8 witness: a render has scrolled the list down to the last entry.
C8_Witness ==
    pc = "events" /\ Len(leds) > 0 /\ Selected = Some(LastIndex)
    /\ led_list_state.offset > 0

IsPrefixOf(a, b) == Len(a) <= Len(b) /\ SubSeq(b, 1, Len(a)) = a

\* C9: the log only grows; the scan line is its one line while the loop
\* runs, and no step of the loop changes it; on a normal quit the exit line
\* is appended as its last line, and that log is returned and printed.
C9_Log ==
    /\ [][IsPrefixOf(log, log')]_vars
    /\ [][InLoop => log' = log]_vars
    /\ [](InLoop =>
            log = <<IF scan[1].ok THEN FoundLine ELSE ExpectedErrorLine>>)
    /\ []((pc \in {"returned", "done"} /\ ~running) =>
            /\ Len(log) = 2
            /\ log[2] = "Exiting Glimpse"
            /\ result = Some(Ok(log)))
    /\ []((pc = "done" /\ ~running) =>
            stdout = <<"Printing Glimpse log output...">> \o log)

\* C9 witness: the log was printed after a normal quit.
C9_Witness == pc = "done" /\ ~running /\ Len(stdout) = 3

\* C10: an iteration of the loop renders, reads one event and dispatches
\* it; an event that is no key press changes nothing of the application.
C10_OnlyPresses ==
    [][ /\ pc = "draw" => pc' \in {"events", "returned"}
        /\ pc = "events" =>
              \/ pc' = "match" /\ event' # None /\ UNCHANGED app
              \/ pc' = "returned" /\ UNCHANGED app
        /\ Dispatching => (event' = None /\ pc' \in {"draw", "exit"})
        /\ (Dispatching /\ ~IsKeyPress) => (UNCHANGED app /\ pc' = "draw") ]_vars

\* C10 witness: the release of a quit key has been read while an entry is
\* selected.
C10_Witness ==
    /\ Dispatching /\ event[1].kind = "Release" /\ event[1].code = <<"Esc">>
    /\ running /\ Selected # None

(***************************************************************************)
(* Vocabulary of the scan properties.                                      *)
(***************************************************************************)
Scanned == pc = "run"
Entries == fs.entries
NumEntries == Len(fs.entries)

AllDigits(s) == s # <<>> /\ \A i \in 1..Len(s) : s[i] \in DigitChars

RECURSIVE Pow10(_)
Pow10(k) == IF k = 0 THEN 1 ELSE 10 * Pow10(k - 1)

RECURSIVE PlaceSum(_, _)
PlaceSum(s, i) ==
    IF i > Len(s) THEN 0
    ELSE DigitValue(s[i]) * Pow10(Len(s) - i) + PlaceSum(s, i + 1)

\* The number a string of decimal digits denotes
DecimalValue(s) == PlaceSum(s, 1)

\* The text trims to an integer in [0, 255]
IsBrightnessText(text) ==
    AllDigits(Trim(text)) /\ DecimalValue(Trim(text)) <= 255

\* The text is not numeric, or denotes an integer outside [0, 255]
IsInvalidBrightnessText(text) ==
    LET t == Trim(text) IN
    \/ ~(AllDigits(t) \/ (t # <<>> /\ Head(t) = "-" /\ AllDigits(Tail(t))))
    \/ AllDigits(t) /\ DecimalValue(t) > 255
    \/ t # <<>> /\ Head(t) = "-" /\ AllDigits(Tail(t)) /\ DecimalValue(Tail(t)) > 0

Accessible(d) == d.iter = "Ok" /\ d.utf8 /\ d.dir = "Ok" /\ d.file = "Ok"
IsWellFormed(d) == Accessible(d) /\ IsBrightnessText(d.brightness)

RECURSIVE LeadingColons(_)
LeadingColons(s) ==
    IF s # <<>> /\ Head(s) = ":" THEN 1 + LeadingColons(Tail(s)) ELSE 0

\* The identifier with its separators replaced: a run of k colons holds
\* k \div 2 separators, each a single space, and keeps a last odd colon.
RECURSIVE DisplayName(_)
DisplayName(id) ==
    IF id = <<>> THEN <<>>
    ELSE IF Head(id) = ":"
    THEN LET k == LeadingColons(id) IN
         [j \in 1..(k \div 2) |-> " "] \o [j \in 1..(k % 2) |-> ":"]
            \o DisplayName(SubSeq(id, k + 1, Len(id)))
    ELSE <<Head(id)>> \o DisplayName(Tail(id))

\* C5: when every directory under the root is well formed, the scan
\* returns one record per directory, in enumeration order, with the
\* directory name as identifier, is_on true exactly for a brightness above
\* zero, and the identifier with separators replaced as display name.
C5_WellFormedScan ==
    (Scanned /\ fs.root = "Ok" /\ \A i \in 1..NumEntries : IsWellFormed(Entries[i])) =>
        /\ scan[1].ok
        /\ Len(scan[1].val[1]) = NumEntries
        /\ leds = scan[1].val[1]
        /\ \A i \in 1..NumEntries :
              /\ leds[i].file_name = Entries[i].name
              /\ leds[i].is_on = (DecimalValue(Trim(Entries[i].brightness)) > 0)
              /\ leds[i].name = DisplayName(Entries[i].name)

\* C5 witness: two devices, the first on and shown with a space for its
\* separator, the second off.
C5_Witness ==
    /\ Scanned /\ scan[1].ok /\ Len(leds) = 2
    /\ leds[1].is_on /\ ~leds[2].is_on
    /\ leds[1].name # leds[1].file_name

\* The device of entry i fails to construct
Fails(d) == ~Accessible(d) \/ IsInvalidBrightnessText(d.brightness)

\* The error of the device of entry i, which fails to construct
FailureOf(i) ==
    IF Entries[i].iter # "Ok" THEN IOError(Entries[i].iter)
    ELSE IF ~Entries[i].utf8 THEN InvalidFileName
    ELSE IF Accessible(Entries[i]) THEN InvalidBrightness
    ELSE LED_new(Entries[i].name).result.err[1]

IsFirstFailing(i) ==
    /\ i \in 1..NumEntries
    /\ Fails(Entries[i])
    /\ \A j \in 1..(i - 1) : IsWellFormed(Entries[j])

\* C6: when a device fails to construct, the scan returns the error of the
\* first failing device and no records, no device after it is read, and
\* the application holds no device; a first failing device whose
\* brightness is not numeric or outside 0-255 gives InvalidBrightness.
C6_AllOrNothing ==
    Scanned =>
        \A i \in 1..NumEntries :
            IsFirstFailing(i) =>
                /\ scan[1] = Err(FailureOf(i))
                /\ scan[1].val = None
                /\ leds = <<>>
                /\ \A k \in 1..Len(reads) :
                      reads[k] # RootPath =>
                          \E j \in 1..i : reads[k][1] = Entries[j].name
                /\ Accessible(Entries[i]) => scan[1].err = Some(InvalidBrightness)

\* C6 witness: the first of two devices has an invalid brightness, and the
\* second was never read.
C6_Witness ==
    /\ Scanned /\ NumEntries = 2 /\ scan[1].err = Some(InvalidBrightness)
    /\ reads = <<RootPath, DirPath(Entries[1].name), BrightnessPath(Entries[1].name)>>

\* C7 as stated: a missing root, or a device directory missing when it is
\* read, fails the scan with NotFound; IOError is never a missing
\* directory.
C7_Original ==
    Scanned =>
        /\ fs.root = "NotFound" => scan[1].err = Some(NotFound)
        /\ \A i \in 1..NumEntries :
              (fs.root = "Ok" /\ IsFirstFailing(i) /\ Entries[i].iter = "Ok"
               /\ Entries[i].utf8 /\ Entries[i].dir = "NotFound") =>
                  scan[1].err = Some(NotFound)
        /\ (ScanFailed /\ scan[1].err[1].tag = "IOError") =>
              /\ fs.root # "NotFound"
              /\ \A i \in 1..NumEntries :
                    (IsFirstFailing(i) /\ Entries[i].iter = "Ok" /\ Entries[i].utf8) =>
                        Entries[i].dir # "NotFound"

\* C7 amended: a device directory missing when it is read fails the scan
\* with NotFound, and NotFound is reported for nothing else; a missing
\* root fails the scan with IOError carrying the not-found error of the
\* operating system; IOError is otherwise reported for the other
\* filesystem failures: a root or entry that cannot be read, a device
\* directory that cannot be read for another reason than being missing, a
\* brightness file that cannot be read.
C7_Amended ==
    Scanned =>
        /\ fs.root = "NotFound" => scan[1].err = Some(IOError("NotFound"))
        /\ \A i \in 1..NumEntries :
              (fs.root = "Ok" /\ IsFirstFailing(i) /\ Entries[i].iter = "Ok"
               /\ Entries[i].utf8) =>
                  (Entries[i].dir = "NotFound" <=> scan[1].err = Some(NotFound))
        /\ (ScanFailed /\ scan[1].err[1].tag = "NotFound") =>
              (fs.root = "Ok" /\ \E i \in 1..NumEntries :
                  IsFirstFailing(i) /\ Entries[i].dir = "NotFound")
        /\ (ScanFailed /\ scan[1].err[1].tag = "IOError") =>
              \/ fs.root # "Ok"
              \/ \E i \in 1..NumEntries :
                    /\ IsFirstFailing(i)
                    /\ \/ Entries[i].iter # "Ok"
                       \/ Entries[i].dir \notin {"Ok", "NotFound"}
                       \/ (Entries[i].dir = "Ok" /\ Entries[i].file # "Ok")

\* C7 witness: the root directory does not exist and the scan failed with
\* IOError.
C7_Witness ==
    Scanned /\ fs.root = "NotFound" /\ scan[1].err = Some(IOError("NotFound"))

====
